---- MODULE Spec2Model ----
(***************************************************************************)
(* schema-manager: a CLI that keeps a clone of a remote repository in a    *)
(* cache directory and lists / searches / checks it.                       *)
(*                                                                         *)
(* Go strings are modelled as sequences of one-character strings, so that  *)
(* HasSuffix, the regular expression matcher, filepath.Rel and the [:8]    *)
(* slice of a hash are computed rather than assumed.                       *)
(*                                                                         *)
(* One action per cobra subcommand (init, list, search, status); every     *)
(* action is one whole process run.  The environment's choices (which      *)
(* filesystem / clone / network step fails, what the remote holds) are the *)
(* \E-bound inputs of the actions.  os.Stat of the cache path succeeds     *)
(* exactly when the path exists.                                           *)
(***************************************************************************)
EXTENDS Integers, Sequences, FiniteSets, TLC

VARIABLES
    cache,  \* what is on disk at cacheDir: [exists, tree, head]
    last    \* the record of the most recent invocation (inputs, output, exit code)

vars == <<cache, last>>

(***************************************************************************)
(* Bounds of the model.                                                    *)
(***************************************************************************)
\* longest list of references the remote advertises
MaxRefs == 2
\* most entries of a working tree that list and search are run over (the .git
\* metadata not counted)
MaxWorkEntries == 4

(***************************************************************************)
(* Strings.                                                                *)
(***************************************************************************)
\* strings.HasSuffix
HasSuffix(s, suffix) ==
    /\ Len(s) >= Len(suffix)
    /\ SubSeq(s, Len(s) - Len(suffix) + 1, Len(s)) = suffix

\* the suffix tested by list and search: ".hl"
HlSuffix == <<".", "h", "l">>

\* byte order of the characters that occur in file names
CharOrder == <<"$", ".", "/", "A", "D", "E", "H", "[", "]", "^",
               "a", "b", "c", "d", "e", "g", "h", "i", "l", "s", "t", "x">>

Rank(c) == CHOOSE i \in 1..Len(CharOrder) : CharOrder[i] = c

\* s < t in the lexical (byte) order sort.Strings uses
RECURSIVE StrLess(_, _)
StrLess(s, t) ==
    IF t = <<>> THEN FALSE
    ELSE IF s = <<>> THEN TRUE
    ELSE IF s[1] = t[1] THEN StrLess(Tail(s), Tail(t))
    ELSE Rank(s[1]) < Rank(t[1])

(***************************************************************************)
(* The directory tree under cacheDir.  An entry is [path, kind]: path is   *)
(* the sequence of name components below cacheDir, kind is what Lstat      *)
(* reports ("file", "dir" or "symlink").                                   *)
(***************************************************************************)
N_git  == <<".", "g", "i", "t">>
N_HEAD == <<"H", "E", "A", "D">>
N_a    == <<"a">>
N_bhl  == <<"b", ".", "h", "l">>
N_ctxt == <<"c", ".", "t", "x", "t">>
N_dhl  == <<"d", ".", "h", "l">>
N_ehl  == <<"e", ".", "h", "l">>
N_shl  == <<"s", ".", "h", "l">>
\* the last component of cacheDir, <home>/.opencmd/commands
N_commands == <<"c", "o", "m", "m", "a", "n", "d", "s">>

Entry(p, k) == [path |-> p, kind |-> k]

RootEntry == Entry(<<>>, "dir")

\* the metadata a completed clone writes; git.PlainOpen looks for it
GitMeta == {Entry(<<N_git>>, "dir"), Entry(<<N_git, N_HEAD>>, "file")}

\* what a working tree of the remote may contain
WorkEntries ==
    { Entry(<<N_a>>, "dir"),
      Entry(<<N_a, N_bhl>>, "file"),
      Entry(<<N_a, N_ctxt>>, "file"),
      Entry(<<N_a, N_dhl>>, "file"),
      Entry(<<N_dhl>>, "file"),
      Entry(<<N_ehl>>, "dir"),
      Entry(<<N_shl>>, "symlink") }

ParentClosed(t) ==
    \A e \in t : Len(e.path) > 1 =>
        Entry(SubSeq(e.path, 1, Len(e.path) - 1), "dir") \in t

\* every directory tree made of these entries
WorkTrees == {t \in SUBSET WorkEntries : ParentClosed(t)}

\* the tree of the documented scenario: a/b.hl, a/c.txt, d.hl
ScenarioTree ==
    { Entry(<<N_a>>, "dir"), Entry(<<N_a, N_bhl>>, "file"),
      Entry(<<N_a, N_ctxt>>, "file"), Entry(<<N_dhl>>, "file") }

\* a tree with a directory and a symbolic link whose names end in ".hl"
LinkTree ==
    { Entry(<<N_ehl>>, "dir"), Entry(<<N_shl>>, "symlink"),
      Entry(<<N_a>>, "dir"), Entry(<<N_a, N_dhl>>, "file") }

\* the working trees the remote is cloned with
RemoteTrees == {{}, ScenarioTree, LinkTree}

\* the working trees list and search are run over on their own
ScanTrees == {t \in WorkTrees : Cardinality(t) <= MaxWorkEntries}

\* os.FileInfo.Name(): the base name of the entry
Name(e) == IF e.path = <<>> THEN N_commands ELSE e.path[Len(e.path)]

\* os.FileInfo.IsDir()
IsDir(e) == e.kind = "dir"

\* filepath.Rel(cacheDir, path): the components joined by "/", "." for the root
RECURSIVE JoinPath(_)
JoinPath(p) ==
    IF p = <<>> THEN <<>>
    ELSE IF Len(p) = 1 THEN p[1]
    ELSE p[1] \o <<"/">> \o JoinPath(Tail(p))

Rel(p) == IF p = <<>> THEN <<".">> ELSE JoinPath(p)

Children(tree, p) ==
    {e \in tree : Len(e.path) = Len(p) + 1 /\ SubSeq(e.path, 1, Len(p)) = p}

\* readDirNames: the entries of a directory sorted by name
RECURSIVE SortEntries(_)
SortEntries(S) ==
    IF S = {} THEN <<>>
    ELSE LET m == CHOOSE x \in S : \A y \in S \ {x} : StrLess(Name(x), Name(y))
         IN  <<m>> \o SortEntries(S \ {m})

\* filepath.Walk: the entry itself, then, for a directory, its children in
\* lexical order, depth first
RECURSIVE WalkFrom(_, _)
RECURSIVE WalkAll(_, _)
WalkFrom(tree, e) ==
    <<e>> \o (IF IsDir(e) THEN WalkAll(tree, SortEntries(Children(tree, e.path)))
              ELSE <<>>)

WalkAll(tree, es) ==
    IF es = <<>> THEN <<>>
    ELSE WalkFrom(tree, es[1]) \o WalkAll(tree, Tail(es))

\* every tree the cache can hold: a clone, or what a failed RemoveAll leaves of it
CacheTrees == WorkTrees \cup {t \cup GitMeta : t \in WorkTrees}

\* the walk of each tree, computed once
WalkTable == [t \in CacheTrees |-> WalkFrom(t, RootEntry)]

WalkOrder(tree) == WalkTable[tree]

\* The entries whose callback runs with err = nil.  errAt = 0: the walk meets
\* no error.  errAt = i > 0: the callback of the i-th entry gets an error
\* (Lstat or ReadDir failed), returns it, and the walk stops there.
Visited(tree, errAt) ==
    IF errAt = 0 THEN WalkOrder(tree)
    ELSE SubSeq(WalkOrder(tree), 1, errAt - 1)

WalkErrors(tree) == 0..Len(WalkOrder(tree))

(***************************************************************************)
(* Regular expressions: the fragment of the regexp syntax made of literal  *)
(* characters, ".", "^", "$" and bracket classes "[...]" / "[^...]".       *)
(***************************************************************************)
\* Index of the "]" that closes the class opened by the "[" at p[i], 0 when
\* the class is not closed.  A "]" right after "[" or "[^" is a member.
ClassFirst(p, i) == IF i + 1 <= Len(p) /\ p[i + 1] = "^" THEN i + 2 ELSE i + 1

ClassEnd(p, i) ==
    LET closers == {j \in (ClassFirst(p, i) + 1)..Len(p) : p[j] = "]"}
    IN  IF closers = {} THEN 0
        ELSE CHOOSE j \in closers : \A k \in closers : j <= k

ClassNegated(p, i) == ClassFirst(p, i) = i + 2

ClassMembers(p, i) == {p[j] : j \in ClassFirst(p, i)..(ClassEnd(p, i) - 1)}

\* regexp.Compile returns a nil error
RECURSIVE CompilesFrom(_, _)
CompilesFrom(p, i) ==
    IF i > Len(p) THEN TRUE
    ELSE IF p[i] = "[" THEN ClassEnd(p, i) # 0 /\ CompilesFrom(p, ClassEnd(p, i) + 1)
    ELSE CompilesFrom(p, i + 1)

Compiles(p) == CompilesFrom(p, 1)

\* p[i..] matches t starting at position j
RECURSIVE MatchHere(_, _, _, _)
MatchHere(p, i, t, j) ==
    IF i > Len(p) THEN TRUE
    ELSE IF p[i] = "^" THEN j = 1 /\ MatchHere(p, i + 1, t, j)
    ELSE IF p[i] = "$" THEN j = Len(t) + 1 /\ MatchHere(p, i + 1, t, j)
    ELSE IF p[i] = "[" THEN
        /\ ClassEnd(p, i) # 0
        /\ j <= Len(t)
        /\ (t[j] \in ClassMembers(p, i)) # ClassNegated(p, i)
        /\ MatchHere(p, ClassEnd(p, i) + 1, t, j + 1)
    ELSE IF p[i] = "." THEN j <= Len(t) /\ MatchHere(p, i + 1, t, j + 1)
    ELSE j <= Len(t) /\ t[j] = p[i] /\ MatchHere(p, i + 1, t, j + 1)

\* Regexp.MatchString: the pattern matches somewhere in t
MatchString(p, t) == \E j \in 1..(Len(t) + 1) : MatchHere(p, 1, t, j)

\* the pattern arguments tried
P_caret_d  == <<"^", "d">>
P_a        == <<"a">>
P_hl_end   == <<"h", "l", "$">>
P_class    == <<"[", "b", "s", "]">>
P_negclass == <<"^", "[", "^", "d", "]">>
P_a_slash  == <<"a", "/">>
P_dot_txt  == <<"t", ".", "t">>
P_empty    == <<>>
P_invalid  == <<"[", "i", "n", "v", "a", "l", "i", "d">>
P_unclosed == <<"d", "[", "]">>

Patterns ==
    { P_caret_d, P_a, P_hl_end, P_class, P_negclass, P_a_slash, P_dot_txt,
      P_empty, P_invalid, P_unclosed }

(***************************************************************************)
(* Commit identifiers (plumbing.Hash).  A state holds an identifier as an  *)
(* opaque value; Hash.String() gives its 40 hex digits.                    *)
(***************************************************************************)
ZeroHash == "zero"
HashA    == "commit_a"
\* its hex form differs from that of HashA in the last digit only
HashA2   == "commit_a2"
HashC    == "commit_c"

\* identifiers of real commits
Hashes == {HashA, HashA2, HashC}

\* 20 bytes, two hex digits each
HexLen == 2 * 20

Hex(body, tail) == [i \in 1..HexLen |-> IF i = HexLen THEN tail ELSE body]

\* Hash.String()
HashString(h) ==
    CASE h = ZeroHash -> Hex("0", "0")
      [] h = HashA    -> Hex("a", "a")
      [] h = HashA2   -> Hex("a", "b")
      [] h = HashC    -> Hex("c", "c")

\* Hash.IsZero
IsZero(h) == h = ZeroHash

\* the number of hex digits status prints of an identifier
ShortLen == 8

\* Hash.String()[:8]
Short8(h) == SubSeq(HashString(h), 1, ShortLen)

(***************************************************************************)
(* Remote references: [name, hash], the name as its "/"-separated parts.   *)
(***************************************************************************)
R_main    == <<"refs", "heads", "main">>
R_tagmain == <<"refs", "tags", "main">>
R_dev     == <<"refs", "heads", "dev">>

RefNames == {R_main, R_tagmain, R_dev}

\* ReferenceName.IsBranch: the name starts with "refs/heads/"
IsBranch(n) == Len(n) > 2 /\ n[1] = "refs" /\ n[2] = "heads"

\* ReferenceName.Short: the name without its refs/heads/, refs/tags/ or
\* refs/remotes/ prefix
ShortName(n) ==
    IF Len(n) > 2 /\ n[1] = "refs" /\ n[2] \in {"heads", "tags", "remotes"}
    THEN SubSeq(n, 3, Len(n))
    ELSE n

MainName == <<"main">>

\* the lists a remote may advertise: no name twice, real commit identifiers
RefLists ==
    UNION { {s \in [1..n -> [name : RefNames, hash : Hashes]] :
                \A i, j \in 1..n : i # j => s[i].name # s[j].name}
            : n \in 0..MaxRefs }


(***************************************************************************)
(* The cache directory on disk.                                            *)
(***************************************************************************)
Absent == [exists |-> FALSE, tree |-> {}, head |-> ZeroHash]

\* an existing directory; head is the HEAD commit when it holds a repository
Dir(tree, head) ==
    [exists |-> TRUE, tree |-> tree,
     head |-> IF GitMeta \subseteq tree THEN head ELSE ZeroHash]

\* the cache is a working tree that git.PlainOpen opens
IsRepo(c) == c.exists /\ GitMeta \subseteq c.tree

\* what a completed clone writes: the working tree, its metadata, its HEAD
CloneHeads == {HashA, HashC}

Clones == {[tree |-> t \cup GitMeta, head |-> h] : t \in RemoteTrees, h \in CloneHeads}

NoClone == [tree |-> {}, head |-> ZeroHash]

(***************************************************************************)
(* What an invocation prints: a sequence of lines [msg, arg].              *)
(***************************************************************************)
M(msg) == [msg |-> msg, arg |-> <<>>]

MA(msg, arg) == [msg |-> msg, arg |-> arg]

PathLines(es) == [i \in 1..Len(es) |-> MA("Path", Rel(es[i].path))]

\* the exit code of a Run callback that returns
ExitOk == 0

\* the code passed to os.Exit when a step of init fails
ExitFailure_Zero == ExitOk

ExitFailure == 1

Result(c, out, ops, exit) == [cache |-> c, out |-> out, ops |-> ops, exit |-> exit]

(***************************************************************************)
(* repositoryExists: os.Stat(cacheDir) returns no error                    *)
(***************************************************************************)
repositoryExists_Always(c) == TRUE

repositoryExists(c) == c.exists

(***************************************************************************)
(* init                                                                    *)
(***************************************************************************)
InitFailures == {"none", "remove", "mkdir", "clone"}

\* os.RemoveAll(cacheDir) returning nil: nothing is left at the path
RemoveAll_Keeps(c) == c

RemoveAll(c) == Absent

\* os.RemoveAll returning an error: what may be left of an existing cache
RemoveAllLeftovers(c) ==
    {c, Dir(c.tree \ GitMeta, ZeroHash), Dir({}, ZeroHash)}

\* the early return of init: the path exists and force is not set
InitSkips_Never(c, force) == FALSE

InitSkips(c, force) == c.exists /\ ~force

\* os.MkdirAll(cacheDir) returning nil
MkdirAll(c) == IF c.exists THEN c ELSE Dir({}, ZeroHash)

\* git.PlainClone refuses a directory that already holds a repository
CloneRefused(c) == GitMeta \subseteq c.tree

\* the cache after git.PlainClone returned an error: init exits and removes
\* nothing, the directory MkdirAll made stays
CloneFailed_Cleanup(c) == Absent

CloneFailed(c) == c

\* initRepository with the force flag, the step the environment fails, what a
\* failing RemoveAll leaves, and what a completed clone writes
initRepository(c, force, fail, left, cl) ==
    IF force /\ fail = "remove"
    THEN Result(left, <<M("RemoveError")>>, {"RemoveAll"}, ExitFailure)
    ELSE
      LET c1   == IF force THEN RemoveAll(c) ELSE c
          out1 == IF force THEN <<M("Removed")>> ELSE <<>>
          ops1 == (IF force THEN {"RemoveAll"} ELSE {}) \cup {"Stat"}
      IN
      IF InitSkips(c1, force)
      THEN Result(c1, out1 \o <<M("AlreadyExists"), M("UseForce")>>, ops1, ExitOk)
      ELSE IF fail = "mkdir"
      THEN Result(c1, out1 \o <<M("MkdirError")>>, ops1 \cup {"MkdirAll"}, ExitFailure)
      ELSE
        LET c2 == MkdirAll(c1) IN
        IF fail = "clone" \/ CloneRefused(c2)
        THEN Result(CloneFailed(c2), out1 \o <<M("Cloning"), M("CloneError")>>,
                    ops1 \cup {"MkdirAll", "PlainClone"}, ExitFailure)
        ELSE Result(Dir(cl.tree, cl.head), out1 \o <<M("Cloning"), M("Cloned")>>,
                    ops1 \cup {"MkdirAll", "PlainClone"}, ExitOk)

(***************************************************************************)
(* list                                                                    *)
(***************************************************************************)
\* the entries list prints: not a directory, name ending in ".hl"
ListPrints_AnyKind(e) == HasSuffix(Name(e), HlSuffix)

ListPrints(e) == ~IsDir(e) /\ HasSuffix(Name(e), HlSuffix)

listFiles(c, errAt) ==
    IF ~repositoryExists(c)
    THEN Result(c, <<M("NotFound")>>, {"Stat"}, ExitOk)
    ELSE Result(c,
                <<M("ListHeader"), M("Rule")>>
                  \o PathLines(SelectSeq(Visited(c.tree, errAt), ListPrints))
                  \o (IF errAt # 0 THEN <<M("WalkError")>> ELSE <<>>),
                {"Stat", "Walk"}, ExitOk)

(***************************************************************************)
(* search                                                                  *)
(***************************************************************************)
\* the entries search tests: not a directory, name ending in ".hl"
SearchCandidate(e) == ~IsDir(e) /\ HasSuffix(Name(e), HlSuffix)

\* the test of one candidate: the regex against the file name alone
SearchMatches_Path(p, e) == MatchString(p, Rel(e.path))

SearchMatches(p, e) == MatchString(p, Name(e))

\* regexp.Compile(pattern) returns no error
Compiles_Always(p) == TRUE

CompileOk(p) == Compiles(p)

searchFiles(c, pattern, errAt) ==
    IF ~repositoryExists(c)
    THEN Result(c, <<M("NotFound")>>, {"Stat"}, ExitOk)
    ELSE IF ~CompileOk(pattern)
    THEN Result(c, <<M("InvalidPattern")>>, {"Stat", "Compile"}, ExitOk)
    ELSE
      LET hits  == SelectSeq(Visited(c.tree, errAt),
                             LAMBDA e : SearchCandidate(e) /\ SearchMatches(pattern, e))
          found == hits # <<>>
      IN  Result(c,
                 <<MA("SearchHeader", pattern), M("Rule")>>
                   \o PathLines(hits)
                   \o (IF errAt # 0 THEN <<M("WalkError")>>
                       ELSE IF ~found THEN <<M("NoMatches")>>
                       ELSE <<>>),
                 {"Stat", "Compile", "Walk"}, ExitOk)

(***************************************************************************)
(* status                                                                  *)
(***************************************************************************)
StatusFailures == {"none", "open", "remote", "list", "head"}

\* the loop over the advertised references: the hash of the first branch
\* reference whose short name is "main", the zero hash when there is none
RECURSIVE FindMain(_)
FindMain(refs) ==
    IF refs = <<>> THEN ZeroHash
    ELSE IF IsBranch(refs[1].name) /\ ShortName(refs[1].name) = MainName
    THEN refs[1].hash
    ELSE FindMain(Tail(refs))

\* head.Hash() == remoteMainHash
SameHash_Short(a, b) == Short8(a) = Short8(b)

SameHash(a, b) == a = b

checkRepository(c, fail, refs) ==
    IF ~repositoryExists(c)
    THEN Result(c, <<M("NotFound")>>, {"Stat"}, ExitOk)
    ELSE IF fail = "open" \/ ~IsRepo(c)
    THEN Result(c, <<M("OpenError")>>, {"Stat", "PlainOpen"}, ExitOk)
    ELSE IF fail = "remote"
    THEN Result(c, <<M("RemoteError")>>, {"Stat", "PlainOpen", "Remote"}, ExitOk)
    ELSE IF fail = "list"
    THEN Result(c, <<M("ListRefsError")>>,
                {"Stat", "PlainOpen", "Remote", "List"}, ExitOk)
    ELSE IF fail = "head"
    THEN Result(c, <<M("HeadError")>>,
                {"Stat", "PlainOpen", "Remote", "List", "Head"}, ExitOk)
    ELSE
      LET remoteMainHash == FindMain(refs)
          ops == {"Stat", "PlainOpen", "Remote", "List", "Head"}
      IN
      IF IsZero(remoteMainHash)
      THEN Result(c, <<M("NoRemoteMain")>>, ops, ExitOk)
      ELSE IF SameHash(c.head, remoteMainHash)
      THEN Result(c, <<M("UpToDate")>>, ops, ExitOk)
      ELSE Result(c,
                  <<M("Behind"), MA("LocalHEAD", Short8(c.head)),
                    MA("RemoteMain", Short8(remoteMainHash)), M("Hint")>>,
                  ops, ExitOk)

(***************************************************************************)
(* The state machine: one action per subcommand, one process run each.     *)
(***************************************************************************)
Call(cmd, force, pattern, fail, errAt, refs, cl, r) ==
    [cmd |-> cmd, force |-> force, pattern |-> pattern, fail |-> fail,
     errAt |-> errAt, refs |-> refs, clone |-> cl, pre |-> cache,
     out |-> r.out, ops |-> r.ops, exit |-> r.exit]

NoCall ==
    [cmd |-> "none", force |-> FALSE, pattern |-> <<>>, fail |-> "none",
     errAt |-> 0, refs |-> <<>>, clone |-> NoClone, pre |-> Absent,
     out |-> <<>>, ops |-> {}, exit |-> ExitOk]

Init ==
    /\ cache = Absent
    /\ last = NoCall

\* schema-manager init [-f]
InitCmd ==
    \E force \in BOOLEAN, fail \in InitFailures :
        \* a step can only fail if the run gets to it
        /\ fail = "remove" => force /\ cache.exists
        /\ fail \in {"mkdir", "clone"} => force \/ ~cache.exists
        /\ \E left \in (IF fail = "remove" THEN RemoveAllLeftovers(cache) ELSE {cache}),
              cl \in (IF fail = "none" /\ (force \/ ~cache.exists) THEN Clones ELSE {NoClone}) :
              LET r == initRepository(cache, force, fail, left, cl) IN
                /\ cache' = r.cache
                /\ last' = Call("init", force, <<>>, fail, 0, <<>>, cl, r)

\* schema-manager list
ListCmd ==
    \E errAt \in (IF cache.exists THEN WalkErrors(cache.tree) ELSE {0}) :
        LET r == listFiles(cache, errAt) IN
          /\ cache' = r.cache
          /\ last' = Call("list", FALSE, <<>>, "none", errAt, <<>>, NoClone, r)

\* schema-manager search <pattern>
SearchCmd ==
    \E pattern \in Patterns :
      \E errAt \in (IF cache.exists /\ Compiles(pattern)
                    THEN WalkErrors(cache.tree) ELSE {0}) :
        LET r == searchFiles(cache, pattern, errAt) IN
          /\ cache' = r.cache
          /\ last' = Call("search", FALSE, pattern, "none", errAt, <<>>, NoClone, r)

\* schema-manager status
StatusCmd ==
    \E fail \in StatusFailures :
      \* a step can only fail if the run gets to it
      /\ fail # "none" => cache.exists
      /\ fail \in {"remote", "list", "head"} => IsRepo(cache)
      /\ \E refs \in (IF fail = "none" /\ IsRepo(cache) THEN RefLists ELSE {<<>>}) :
           LET r == checkRepository(cache, fail, refs) IN
             /\ cache' = r.cache
             /\ last' = Call("status", FALSE, <<>>, fail, 0, refs, NoClone, r)

Next == InitCmd \/ ListCmd \/ SearchCmd \/ StatusCmd

Spec == Init /\ [][Next]_vars

(***************************************************************************)
(* list and search on their own, over every cloned tree up to              *)
(* MaxWorkEntries entries.                                                 *)
(***************************************************************************)
InitScan ==
    /\ cache \in {Dir(t \cup GitMeta, HashA) : t \in ScanTrees}
    /\ last = NoCall

NextScan == ListCmd \/ SearchCmd

SpecScan == InitScan /\ [][NextScan]_vars


(***************************************************************************)
(* Reading the record of the last invocation.                              *)
(***************************************************************************)
Printed(msg) == \E i \in 1..Len(last.out) : last.out[i].msg = msg

PathLineCount == Cardinality({i \in 1..Len(last.out) : last.out[i].msg = "Path"})

PrintedPaths == {last.out[i].arg : i \in {j \in 1..Len(last.out) : last.out[j].msg = "Path"}}

\* the file name ends with ".hl", spelled out character by character
EndsInDotHl(n) ==
    /\ Len(n) >= 3
    /\ n[Len(n) - 2] = "." /\ n[Len(n) - 1] = "h" /\ n[Len(n)] = "l"

S_a_b_hl == <<"a", "/", "b", ".", "h", "l">>
S_d_hl   == <<"d", ".", "h", "l">>

(***************************************************************************)
(* C1: after any sequence of invocations the cache location is either      *)
(* absent or a valid working tree produced by a completed clone.           *)
(***************************************************************************)
C1_CacheAbsentOrValidClone == ~cache.exists \/ IsRepo(cache)

(***************************************************************************)
(* C2, as stated: every init --force, from any prior cache state, removes  *)
(* the cache path and re-populates it, and ends with a freshly cloned      *)
(* working tree in the cache.                                              *)
(***************************************************************************)
C2_ForceAlwaysRepopulates ==
    (last.cmd = "init" /\ last.force) =>
        /\ "RemoveAll" \in last.ops
        /\ "PlainClone" \in last.ops
        /\ IsRepo(cache)
        /\ cache = Dir(last.clone.tree, last.clone.head)

(***************************************************************************)
(* C2, amended: every init --force attempts the removal first; when the    *)
(* removal, the directory creation and the clone all succeed it exits 0    *)
(* and the cache holds exactly the freshly cloned working tree, whatever   *)
(* the prior state; when one of them fails it exits non-zero without       *)
(* reporting success, leaving what is left of the old cache (removal       *)
(* failed), no cache (creation failed) or an existing directory that is    *)
(* not a repository (clone failed).                                        *)
(***************************************************************************)
C2_ForceRepopulatesUnlessAStepFails ==
    (last.cmd = "init" /\ last.force) =>
        /\ "RemoveAll" \in last.ops
        /\ last.fail = "none" =>
              /\ last.exit = 0
              /\ {"MkdirAll", "PlainClone"} \subseteq last.ops
              /\ Printed("Removed") /\ Printed("Cloned")
              /\ IsRepo(cache)
              /\ cache.tree = last.clone.tree /\ cache.head = last.clone.head
        /\ last.fail # "none" => last.exit # 0 /\ ~Printed("Cloned")
        /\ last.fail = "remove" =>
              cache.exists /\ cache.tree \subseteq last.pre.tree /\ "PlainClone" \notin last.ops
        /\ last.fail = "mkdir" => ~cache.exists /\ "PlainClone" \notin last.ops
        /\ last.fail = "clone" => cache.exists /\ ~IsRepo(cache)

\* a forced init replaced a valid clone by a different fresh one
C2_Witness ==
    /\ last.cmd = "init" /\ last.force /\ last.fail = "none"
    /\ IsRepo(last.pre) /\ IsRepo(cache)
    /\ cache.tree # last.pre.tree /\ cache.head # last.pre.head

(***************************************************************************)
(* C3: when the cache path exists and force is not set, init reports       *)
(* "already exists", deletes nothing, creates nothing, clones nothing,     *)
(* leaves the cache unchanged and exits 0.                                 *)
(***************************************************************************)
C3_InitWithoutForceKeepsCache ==
    (last.cmd = "init" /\ ~last.force /\ last.pre.exists) =>
        /\ last.out = <<M("AlreadyExists"), M("UseForce")>>
        /\ last.ops \cap {"RemoveAll", "MkdirAll", "PlainClone"} = {}
        /\ cache = last.pre
        /\ last.exit = 0

C3_Witness ==
    /\ last.cmd = "init" /\ ~last.force /\ IsRepo(last.pre)
    /\ Printed("AlreadyExists")

(***************************************************************************)
(* C4: when the cache path is absent, list, search (any pattern) and       *)
(* status print the "Repository not found" message and nothing else, exit  *)
(* 0, scan nothing, open no repository, clone nothing, reach no network,   *)
(* and leave the cache absent.                                             *)
(***************************************************************************)
C4_AbsentCacheNotFound ==
    (last.cmd \in {"list", "search", "status"} /\ ~last.pre.exists) =>
        /\ last.out = <<M("NotFound")>>
        /\ last.exit = 0
        /\ last.ops \cap {"Walk", "PlainOpen", "Remote", "List", "Head",
                          "PlainClone", "MkdirAll", "RemoveAll"} = {}
        /\ ~cache.exists

\* search with a pattern that does not compile, on an absent cache
C4_Witness ==
    /\ last.cmd = "search" /\ ~last.pre.exists /\ last.pattern = P_invalid
    /\ Printed("NotFound")

(***************************************************************************)
(* C5: for status on an existing cache where open, remote lookup, remote   *)
(* listing and HEAD resolution succeed: "up to date" is reported iff the   *)
(* local HEAD equals the hash of the advertised refs/heads/main; otherwise *)
(* "behind" with the first 8 hex digits of both; and when no branch main   *)
(* is advertised, "could not find" and neither of the two.                 *)
(***************************************************************************)
C5_StatusVerdict ==
    (last.cmd = "status" /\ IsRepo(last.pre) /\ last.fail = "none") =>
        LET mains == {i \in 1..Len(last.refs) : last.refs[i].name = R_main}
        IN  IF mains = {}
            THEN /\ last.out = <<M("NoRemoteMain")>>
                 /\ ~Printed("UpToDate") /\ ~Printed("Behind")
            ELSE \A i \in mains :
                 LET remote == last.refs[i].hash
                     local  == last.pre.head
                 IN  /\ Printed("UpToDate") <=> local = remote
                     /\ Printed("Behind") <=> local # remote
                     /\ ~Printed("NoRemoteMain")
                     /\ local # remote =>
                          /\ \E k \in 1..Len(last.out) :
                               /\ last.out[k].msg = "LocalHEAD"
                               /\ Len(last.out[k].arg) = 8
                               /\ \A d \in 1..8 : last.out[k].arg[d] = HashString(local)[d]
                          /\ \E k \in 1..Len(last.out) :
                               /\ last.out[k].msg = "RemoteMain"
                               /\ Len(last.out[k].arg) = 8
                               /\ \A d \in 1..8 : last.out[k].arg[d] = HashString(remote)[d]

\* behind, although both identifiers start with the same 8 digits
C5_Witness ==
    /\ last.cmd = "status" /\ IsRepo(last.pre) /\ last.fail = "none"
    /\ Printed("Behind")
    /\ \E i \in 1..Len(last.refs) :
          /\ last.refs[i].name = R_main
          /\ last.refs[i].hash # last.pre.head
          /\ Short8(last.refs[i].hash) = Short8(last.pre.head)


(***************************************************************************)
(* C6, as stated: for an existing cache whose traversal raises no error,   *)
(* list prints exactly the relative paths of the regular files whose name  *)
(* ends with ".hl", each once, and no other entry.                         *)
(***************************************************************************)
C6_ListPrintsRegularHlFiles ==
    (last.cmd = "list" /\ last.pre.exists /\ last.errAt = 0) =>
        /\ PrintedPaths =
             {Rel(e.path) : e \in {x \in last.pre.tree :
                                      x.kind = "file" /\ EndsInDotHl(Name(x))}}
        /\ PathLineCount = Cardinality(PrintedPaths)

(***************************************************************************)
(* C6, amended: for an existing cache whose traversal raises no error,     *)
(* list prints exactly the relative paths of the entries that are not      *)
(* directories (regular files, and also symbolic links and other           *)
(* non-directory entries) and whose name ends with ".hl", each once, and   *)
(* no other entry; for a/b.hl, a/c.txt, d.hl exactly a/b.hl and d.hl.      *)
(***************************************************************************)
C6_ListPrintsNonDirHlEntries ==
    (last.cmd = "list" /\ last.pre.exists /\ last.errAt = 0) =>
        /\ PrintedPaths =
             {Rel(e.path) : e \in {x \in last.pre.tree :
                                      x.kind # "dir" /\ EndsInDotHl(Name(x))}}
        /\ PathLineCount = Cardinality(PrintedPaths)
        /\ last.pre.tree \ GitMeta = ScenarioTree => PrintedPaths = {S_a_b_hl, S_d_hl}

\* list printed a symbolic link, and skipped a directory, named *.hl
C6_Witness ==
    /\ last.cmd = "list" /\ last.errAt = 0
    /\ Entry(<<N_shl>>, "symlink") \in last.pre.tree
    /\ Entry(<<N_ehl>>, "dir") \in last.pre.tree
    /\ N_shl \in PrintedPaths
    /\ N_ehl \notin PrintedPaths

(***************************************************************************)
(* C7: for search with a valid pattern on an existing cache whose          *)
(* traversal raises no error, a path is printed iff it is a non-directory  *)
(* entry whose name ends with ".hl" and whose name alone (not its relative *)
(* path, not a parent directory's name) matches the regex; "no matches" is *)
(* printed iff no path was printed.                                        *)
(***************************************************************************)
C7_SearchMatchesFileNameOnly ==
    (last.cmd = "search" /\ last.pre.exists /\ Compiles(last.pattern)
        /\ last.errAt = 0) =>
        /\ PrintedPaths =
             {Rel(e.path) : e \in {x \in last.pre.tree :
                                      /\ x.kind # "dir"
                                      /\ EndsInDotHl(Name(x))
                                      /\ MatchString(last.pattern, Name(x))}}
        /\ Printed("NoMatches") <=> PrintedPaths = {}
        /\ last.pre.tree \ GitMeta = ScenarioTree =>
              /\ last.pattern = P_caret_d => PrintedPaths = {S_d_hl}
              /\ last.pattern = P_a => PrintedPaths = {}
              /\ last.pattern = P_a_slash => PrintedPaths = {}
              /\ last.pattern = P_hl_end => PrintedPaths = {S_a_b_hl, S_d_hl}
              /\ last.pattern = P_class => PrintedPaths = {S_a_b_hl}
              /\ last.pattern = P_negclass => PrintedPaths = {S_a_b_hl}
              /\ last.pattern = P_dot_txt => PrintedPaths = {}
              /\ last.pattern = P_empty => PrintedPaths = {S_a_b_hl, S_d_hl}

\* the pattern "a" matches the directory part of a/b.hl only: nothing printed
C7_Witness ==
    /\ last.cmd = "search" /\ last.pattern = P_a /\ last.errAt = 0
    /\ last.pre.tree \ GitMeta = ScenarioTree
    /\ Printed("NoMatches") /\ PrintedPaths = {}

C9_InvalidPatternAnyCache ==
    (last.cmd = "search" /\ ~Compiles(last.pattern)) =>
        /\ Printed("InvalidPattern")
        /\ "Walk" \notin last.ops
        /\ PrintedPaths = {} /\ ~Printed("NoMatches")
        /\ last.exit = 0

(***************************************************************************)
(* C9, amended: every search on an existing cache path whose pattern does  *)
(* not compile prints an "invalid pattern" message, scans nothing, prints  *)
(* no path and no "no matches" message, and exits 0; on an absent cache    *)
(* path it prints "Repository not found" instead of the "invalid pattern"  *)
(* message (and likewise scans nothing and exits 0).                       *)
(***************************************************************************)
C9_InvalidPatternExistingCache ==
    (last.cmd = "search" /\ ~Compiles(last.pattern)) =>
        /\ last.pre.exists => last.out = <<M("InvalidPattern")>>
        /\ ~last.pre.exists => last.out = <<M("NotFound")>>
        /\ "Walk" \notin last.ops
        /\ PrintedPaths = {} /\ ~Printed("NoMatches")
        /\ last.exit = 0
        /\ cache = last.pre

\* search "[invalid" on a cache that holds matching candidates
C9_Witness ==
    /\ last.cmd = "search" /\ last.pattern = P_invalid
    /\ IsRepo(last.pre) /\ Entry(<<N_dhl>>, "file") \in last.pre.tree
    /\ Printed("InvalidPattern")

====
